---- MODULE Spec2Model ----
\* Rail traversals of compas_fofin.datastructures.Shell
\* (get_continuous_edges, get_parallel_edges, get_face_strip) over a
\* half-edge mesh.  A mesh is the sequence of its faces' vertex loops; the
\* face key of a face is its index in that sequence, None is NoFace.
EXTENDS Integers, Sequences, FiniteSets, TLC

VARIABLES mesh, canon, rot, pc, op, seed, fseed, directed, u, v, end, edges, faces,
          iters, nfwd, result

vars == <<mesh, canon, rot, pc, op, seed, fseed, directed, u, v, end, edges, faces,
          iters, nfwd, result>>

\* ---------------------------------------------------------------- bounds
MaxRing == 4
MaxIter == 60

\* ------------------------------------------------------- python helpers
NoFace == 0
NoVertex == 0 - 1

\* list.index(x): position (0-based) of the first occurrence
index(s, x) == (CHOOSE i \in 1..Len(s) : s[i] = x /\ \A j \in 1..(i - 1) : s[j] # x) - 1

\* s[i] for a python index i >= -len(s), negative indices wrapping around
item(s, i) == s[(i % Len(s)) + 1]

\* s[::-1]
reversed(s) == [i \in 1..Len(s) |-> s[Len(s) + 1 - i]]

Range(s) == {s[i] : i \in 1..Len(s)}

\* ----------------------------------------------------------- the meshes
\* W x H quads, optionally closed around in either direction
QuadGrid(W, H, wrapx, wrapy) ==
    LET NX == IF wrapx THEN W ELSE W + 1
        NY == IF wrapy THEN H ELSE H + 1
        V(i, j) == (j % NY) * NX + (i % NX)
        F(k) == LET i == (k - 1) % W
                    j == (k - 1) \div W
                IN  <<V(i, j), V(i + 1, j), V(i + 1, j + 1), V(i, j + 1)>>
    IN  [k \in 1..(W * H) |-> F(k)]

Grid3x3 == QuadGrid(3, 3, FALSE, FALSE)
SingleQuad == QuadGrid(1, 1, FALSE, FALSE)
Ring(N) == QuadGrid(N, 1, TRUE, FALSE)
Cylinder2(N) == QuadGrid(N, 2, TRUE, FALSE)
Torus3 == QuadGrid(3, 3, TRUE, TRUE)
StripTri == << <<0, 1, 3, 2>>, <<2, 3, 5, 4>>, <<4, 5, 6>> >>
QuadPent == << <<0, 1, 3, 2>>, <<2, 3, 4, 5, 6>> >>
Fan4 == << <<0, 1, 2>>, <<0, 2, 3>>, <<0, 3, 4>>, <<0, 4, 1>> >>
Corner3 == << <<0, 1, 2, 3>>, <<0, 3, 4, 5>>, <<0, 5, 6, 1>> >>

RingSizes == 3..MaxRing

Meshes == {Grid3x3, SingleQuad, Torus3, StripTri, QuadPent, Fan4, Corner3}
          \cup {Ring(n) : n \in RingSizes}
          \cup {Cylinder2(n) : n \in RingSizes}

\* ------------------------------------------------- half-edge primitives
FaceKeys(m) == 1..Len(m)

face_vertices(m, f) == m[f]

Vertices(m) == UNION {Range(m[f]) : f \in FaceKeys(m)}

\* the loop of face f runs from a to b
InLoop(m, f, a, b) ==
    \E i \in 1..Len(m[f]) : m[f][i] = a /\ m[f][(i % Len(m[f])) + 1] = b

\* the half-edges that have a face: the pairs a -> b of every face loop
LoopEdges(m) ==
    UNION {{<<m[f][i], m[f][(i % Len(m[f])) + 1]>> : i \in 1..Len(m[f])} : f \in FaceKeys(m)}

\* the keys of halfedge: add_face registers a -> b and, with None, b -> a
Halfedges(m) == LoopEdges(m) \cup {<<e[2], e[1]>> : e \in LoopEdges(m)}

\* b is a key of halfedge[a]
IsHalfedge(m, a, b) == <<a, b>> \in Halfedges(m)

\* halfedge[a][b]: the face whose loop runs a -> b, None on the boundary
halfedge(m, a, b) ==
    IF \E f \in FaceKeys(m) : InLoop(m, f, a, b)
    THEN CHOOSE f \in FaceKeys(m) : InLoop(m, f, a, b)
    ELSE NoFace

Neighbors(m, key) == {e[2] : e \in {h \in Halfedges(m) : h[1] = key}}

vertex_degree(m, key) == Cardinality(Neighbors(m, key))

\* the half-edges a -> b with halfedge[a][b] None
OpenHalfedges(m) ==
    LET L == LoopEdges(m) IN {<<e[2], e[1]>> : e \in {d \in L : <<d[2], d[1]>> \notin L}}

vertices_on_boundary(m) == UNION {{e[1], e[2]} : e \in OpenHalfedges(m)}

faces_on_boundary(m) == {halfedge(m, e[2], e[1]) : e \in OpenHalfedges(m)}

face_vertex_descendant(m, f, key) == item(m[f], index(m[f], key) + 1 - Len(m[f]))

\* the neighbours of key in increasing order
RECURSIVE Sorted(_)
Sorted(S) ==
    IF S = {} THEN <<>>
    ELSE LET x == CHOOSE y \in S : \A z \in S : y <= z
         IN  <<x>> \o Sorted(S \ {x})

RECURSIVE NeighborCycle(_, _, _, _, _)
NeighborCycle(m, key, start, f, nbrs) ==
    LET nbr == face_vertex_descendant(m, f, key)
        g == halfedge(m, nbr, key)
    IN  IF nbr = start THEN nbrs
        ELSE IF g = NoFace THEN Append(nbrs, nbr)
        ELSE NeighborCycle(m, key, start, g, Append(nbrs, nbr))

\* vertex_neighbors(key, ordered=True): the cycle starts at a neighbour across
\* a boundary half-edge if there is one, else at the first key of halfedge[key],
\* which is the r-th neighbour for the dictionary order r
vertex_neighbors(m, key, r) ==
    LET temp == Sorted(Neighbors(m, key))
        open == {n \in Neighbors(m, key) : halfedge(m, key, n) = NoFace}
        start == IF open # {} THEN CHOOSE n \in open : \A o \in open : n <= o
                 ELSE item(temp, r)
    IN  IF Len(temp) <= 1 THEN temp
        ELSE NeighborCycle(m, key, start, halfedge(m, start, key), <<start>>)

\* edges(): every edge once; in the orientation of the face that registered it
\* first, or from the vertex that was added first
CanonModes == {"face", "vertex"}

FirstFace(m, a, b) ==
    CHOOSE f \in FaceKeys(m) :
        /\ InLoop(m, f, a, b) \/ InLoop(m, f, b, a)
        /\ \A g \in 1..(f - 1) : ~(InLoop(m, g, a, b) \/ InLoop(m, g, b, a))

mesh_edges(m, mode) ==
    {e \in Halfedges(m) :
        IF mode = "face" THEN InLoop(m, FirstFace(m, e[1], e[2]), e[1], e[2])
        ELSE e[1] < e[2]}

\* ------------------------------------------------- get_continuous_edges
\* the three breaks at the head of either while loop
ContinuousStop(m, a, e) ==
    \/ vertex_degree(m, a) # 4
    \/ a = e
    \/ a \in vertices_on_boundary(m)

\* a walk that turns at a instead of going straight on
ContinuousNextTurn(m, a, b, r) ==
    LET nbrs == vertex_neighbors(m, a, r)
        i == index(nbrs, b)
    IN  item(nbrs, i - 1)

\* the neighbour of a opposite to b
ContinuousNext(m, a, b, r) ==
    LET nbrs == vertex_neighbors(m, a, r)
        i == index(nbrs, b)
    IN  item(nbrs, i - 2)

\* u, v of the first walk and v, u = edge of the second
ContinuousStart1(edge) == <<edge[1], edge[2]>>

\* a second walk that starts like the first
ContinuousStart2Same(edge) == <<edge[1], edge[2]>>

ContinuousStart2(edge) == <<edge[2], edge[1]>>

\* a return without the lookup in the edge set
OrientKeep(m, mode, es) == es

\* the list comprehension over the canonical edge set
Orient(m, mode, es) ==
    [k \in 1..Len(es) |->
        IF es[k] \in mesh_edges(m, mode) THEN es[k] ELSE <<es[k][2], es[k][1]>>]

ContinuousReturn(m, mode, es, dir) == IF dir THEN Orient(m, mode, es) ELSE es

\* one while loop of get_continuous_edges, as the list of edges it appends
RECURSIVE ContinuousWalk(_, _, _, _, _, _)
ContinuousWalk(m, a, b, e, r, fuel) ==
    IF fuel = 0 \/ ContinuousStop(m, a, e) THEN <<>>
    ELSE LET w == ContinuousNext(m, a, b, r)
         IN  <<<<a, w>>>> \o ContinuousWalk(m, w, a, e, r, fuel - 1)

\* the whole call
get_continuous_edges(m, mode, r, edge, dir) ==
    LET s1 == ContinuousStart1(edge)
        s2 == ContinuousStart2(edge)
    IN  ContinuousReturn(m, mode,
            <<edge>> \o ContinuousWalk(m, s1[1], s1[2], s1[2], r, MaxIter)
                     \o ContinuousWalk(m, s2[1], s2[2], s2[2], r, MaxIter),
            dir)

Init ==
    /\ mesh \in Meshes
    /\ canon \in CanonModes
    /\ rot \in 0..3
    /\ pc = "idle"
    /\ op = "none"
    /\ seed = <<>>
    /\ fseed = NoFace
    /\ directed = FALSE
    /\ u = NoVertex
    /\ v = NoVertex
    /\ end = NoVertex
    /\ edges = <<>>
    /\ faces = <<>>
    /\ iters = 0
    /\ nfwd = 0
    /\ result = <<>>

CallContinuous ==
    /\ pc = "idle"
    /\ \E edge \in Halfedges(mesh), dir \in BOOLEAN :
        /\ seed' = edge
        /\ directed' = dir
        /\ edges' = <<edge>>
        /\ u' = ContinuousStart1(edge)[1]
        /\ v' = ContinuousStart1(edge)[2]
        /\ end' = ContinuousStart1(edge)[2]
    /\ op' = "continuous"
    /\ pc' = "c_walk1"
    /\ iters' = 0
    /\ UNCHANGED <<mesh, canon, rot, fseed, faces, nfwd, result>>

ContinuousWalk1 ==
    /\ pc = "c_walk1"
    /\ iters < MaxIter
    /\ ~ContinuousStop(mesh, u, end)
    /\ LET w == ContinuousNext(mesh, u, v, rot)
       IN  /\ edges' = Append(edges, <<u, w>>)
           /\ u' = w
           /\ v' = u
    /\ iters' = iters + 1
    /\ UNCHANGED <<mesh, canon, rot, pc, op, seed, fseed, directed, end, faces, nfwd, result>>

ContinuousWalk2 ==
    /\ pc = "c_walk2"
    /\ iters < MaxIter
    /\ ~ContinuousStop(mesh, u, end)
    /\ LET w == ContinuousNext(mesh, u, v, rot)
       IN  /\ edges' = Append(edges, <<u, w>>)
           /\ u' = w
           /\ v' = u
    /\ iters' = iters + 1
    /\ UNCHANGED <<mesh, canon, rot, pc, op, seed, fseed, directed, end, faces, nfwd, result>>

ContinuousBreak1 ==
    /\ pc = "c_walk1"
    /\ ContinuousStop(mesh, u, end)
    /\ u' = ContinuousStart2(seed)[1]
    /\ v' = ContinuousStart2(seed)[2]
    /\ end' = ContinuousStart2(seed)[2]
    /\ pc' = "c_walk2"
    /\ iters' = 0
    /\ UNCHANGED <<mesh, canon, rot, op, seed, fseed, directed, edges, faces, nfwd, result>>

ContinuousBreak2 ==
    /\ pc = "c_walk2"
    /\ ContinuousStop(mesh, u, end)
    /\ result' = ContinuousReturn(mesh, canon, edges, directed)
    /\ pc' = "done"
    /\ UNCHANGED <<mesh, canon, rot, op, seed, fseed, directed, u, v, end, edges, faces, iters, nfwd>>

\* --------------------------------------------------- get_parallel_edges
\* a walk that stops at the boundary only
ParallelBlockedNoneOnly(m, a, b) == halfedge(m, a, b) = NoFace

\* the face left of a -> b is missing or is no quad
ParallelBlocked(m, a, b) ==
    IF halfedge(m, a, b) = NoFace THEN TRUE
    ELSE Len(face_vertices(m, halfedge(m, a, b))) # 4

\* the edge across the face left of a -> b
ParallelOpposite(m, a, b) ==
    LET vertices == face_vertices(m, halfedge(m, a, b))
        i == index(vertices, a)
    IN  <<item(vertices, i - 1), item(vertices, i - 2)>>

\* a walk without the test for the seed
ParallelClosedNever(edge, p) == FALSE

\* u in edge and v in edge
ParallelClosed(edge, p) == p[1] \in Range(edge) /\ p[2] \in Range(edge)

ParallelStop(m, edge, a, b) ==
    IF ParallelBlocked(m, a, b) THEN TRUE
    ELSE ParallelClosed(edge, ParallelOpposite(m, a, b))

\* a list that is not reversed between the two walks
ParallelTurnNot(es) == es

\* edges[:] = edges[::-1] between the two walks
ParallelTurn(es) == reversed(es)

ParallelStart(edge) == <<edge[1], edge[2]>>

CallParallel ==
    /\ pc = "idle"
    /\ \E edge \in Halfedges(mesh) :
        /\ seed' = edge
        /\ edges' = <<ParallelStart(edge)>>
        /\ u' = edge[1]
        /\ v' = edge[2]
    /\ op' = "parallel"
    /\ pc' = "p_walk1"
    /\ iters' = 0
    /\ UNCHANGED <<mesh, canon, rot, fseed, directed, end, faces, nfwd, result>>

ParallelWalk1 ==
    /\ pc = "p_walk1"
    /\ iters < MaxIter
    /\ ~ParallelStop(mesh, seed, u, v)
    /\ LET p == ParallelOpposite(mesh, u, v)
       IN  /\ edges' = Append(edges, p)
           /\ u' = p[1]
           /\ v' = p[2]
    /\ iters' = iters + 1
    /\ UNCHANGED <<mesh, canon, rot, pc, op, seed, fseed, directed, end, faces, nfwd, result>>

ParallelWalk2 ==
    /\ pc = "p_walk2"
    /\ iters < MaxIter
    /\ ~ParallelStop(mesh, seed, u, v)
    /\ LET p == ParallelOpposite(mesh, u, v)
       IN  /\ edges' = Append(edges, p)
           /\ u' = p[1]
           /\ v' = p[2]
    /\ iters' = iters + 1
    /\ UNCHANGED <<mesh, canon, rot, pc, op, seed, fseed, directed, end, faces, nfwd, result>>

ParallelBreak1 ==
    /\ pc = "p_walk1"
    /\ ParallelStop(mesh, seed, u, v)
    /\ edges' = ParallelTurn(edges)
    /\ nfwd' = Len(edges) - 1
    /\ u' = seed[2]
    /\ v' = seed[1]
    /\ pc' = "p_walk2"
    /\ iters' = 0
    /\ UNCHANGED <<mesh, canon, rot, op, seed, fseed, directed, end, faces, result>>

ParallelBreak2 ==
    /\ pc = "p_walk2"
    /\ ParallelStop(mesh, seed, u, v)
    /\ result' = Orient(mesh, canon, edges)
    /\ pc' = "done"
    /\ UNCHANGED <<mesh, canon, rot, op, seed, fseed, directed, u, v, end, edges, faces, iters, nfwd>>

\* ------------------------------------------------------- get_face_strip
\* the first pair a, b of the loop of f with halfedge[b][a] None; <<>> if none
StripEdge(m, f) ==
    LET vertices == face_vertices(m, f)
        n == Len(vertices)
        open == {i \in 1..n : halfedge(m, vertices[(i % n) + 1], vertices[i]) = NoFace}
    IN  IF open = {} THEN <<>>
        ELSE LET i == CHOOSE k \in open : \A j \in open : k <= j
             IN  <<vertices[i], vertices[(i % n) + 1]>>

\* early returns without the test of the seed's length
StripRejectAnyLength(m, f) ==
    IF f \notin faces_on_boundary(m) THEN TRUE
    ELSE StripEdge(m, f) = <<>>

\* the early returns with an empty list
StripReject(m, f) ==
    IF f \notin faces_on_boundary(m) THEN TRUE
    ELSE IF Len(face_vertices(m, f)) # 4 THEN TRUE
    ELSE StripEdge(m, f) = <<>>

\* the edge next to the one at a instead of the one across
StripOppositeAdjacent(m, f, a) ==
    LET vertices == face_vertices(m, f)
        i == index(vertices, a)
    IN  <<item(vertices, i - 1), item(vertices, i)>>

\* u, v on the far side of face f, entered at vertex a
StripOpposite(m, f, a) ==
    LET vertices == face_vertices(m, f)
        i == index(vertices, a)
    IN  <<item(vertices, i - 2), item(vertices, i - 1)>>

\* the face is appended before its length is looked at
StripAppend(fs, f) == Append(fs, f)

CallStripReject ==
    /\ pc = "idle"
    /\ \E f \in 1..(Len(mesh) + 1) :
        /\ StripReject(mesh, f)
        /\ fseed' = f
    /\ faces' = <<>>
    /\ result' = <<>>
    /\ op' = "strip"
    /\ pc' = "done"
    /\ UNCHANGED <<mesh, canon, rot, seed, directed, u, v, end, edges, iters, nfwd>>

CallStrip ==
    /\ pc = "idle"
    /\ \E f \in FaceKeys(mesh) :
        /\ ~StripReject(mesh, f)
        /\ fseed' = f
        /\ faces' = <<f>>
        /\ u' = StripOpposite(mesh, f, StripEdge(mesh, f)[1])[1]
        /\ v' = StripOpposite(mesh, f, StripEdge(mesh, f)[1])[2]
    /\ op' = "strip"
    /\ pc' = "f_walk"
    /\ iters' = 0
    /\ UNCHANGED <<mesh, canon, rot, seed, directed, end, edges, nfwd, result>>

\* the next face is a quad: append it and go on from its far side
StripWalk ==
    /\ pc = "f_walk"
    /\ iters < MaxIter
    /\ halfedge(mesh, v, u) # NoFace
    /\ LET f == halfedge(mesh, v, u)
       IN  /\ Len(face_vertices(mesh, f)) = 4
           /\ faces' = StripAppend(faces, f)
           /\ u' = StripOpposite(mesh, f, v)[1]
           /\ v' = StripOpposite(mesh, f, v)[2]
    /\ iters' = iters + 1
    /\ UNCHANGED <<mesh, canon, rot, pc, op, seed, fseed, directed, end, edges, nfwd, result>>

\* the next face is no quad
StripBreakFace ==
    /\ pc = "f_walk"
    /\ halfedge(mesh, v, u) # NoFace
    /\ LET f == halfedge(mesh, v, u)
       IN  /\ Len(face_vertices(mesh, f)) # 4
           /\ faces' = StripAppend(faces, f)
           /\ result' = StripAppend(faces, f)
    /\ u' = v
    /\ v' = u
    /\ pc' = "done"
    /\ UNCHANGED <<mesh, canon, rot, op, seed, fseed, directed, end, edges, iters, nfwd>>

\* there is no next face
StripBreakBoundary ==
    /\ pc = "f_walk"
    /\ halfedge(mesh, v, u) = NoFace
    /\ result' = faces
    /\ pc' = "done"
    /\ UNCHANGED <<mesh, canon, rot, op, seed, fseed, directed, u, v, end, edges, faces, iters, nfwd>>

Next ==
    \/ CallContinuous
    \/ ContinuousWalk1
    \/ ContinuousBreak1
    \/ ContinuousWalk2
    \/ ContinuousBreak2
    \/ CallParallel
    \/ ParallelWalk1
    \/ ParallelBreak1
    \/ ParallelWalk2
    \/ ParallelBreak2
    \/ CallStripReject
    \/ CallStrip
    \/ StripWalk
    \/ StripBreakFace
    \/ StripBreakBoundary

Spec == Init /\ [][Next]_vars

\* ----------------------------------------------------------- properties
UEdge(e) == {e[1], e[2]}

UEdges(es) == {UEdge(es[k]) : k \in 1..Len(es)}

Returned(name) == pc = "done" /\ op = name

\* C1: the list returned by get_continuous_edges holds no undirected edge
\* twice, also when the line through the seed is a closed loop
NoEdgeTwice ==
    Returned("continuous") =>
        \A i, j \in 1..Len(result) : i # j => UEdge(result[i]) # UEdge(result[j])

\* C2: every while loop of the three traversals exits after at most as many
\* iterations as the mesh has half-edges; iters counts the iterations of the
\* running loop and MaxIter lies above the half-edge count of every mesh
WalksBounded == iters <= Cardinality(Halfedges(mesh)) /\ Cardinality(Halfedges(mesh)) < MaxIter

\* a walk of get_continuous_edges or get_parallel_edges that came back to the seed
ClosedWalkReturned ==
    /\ pc = "done"
    /\ iters >= 3
    /\ \/ op = "continuous" /\ u = end /\ vertex_degree(mesh, u) = 4
                            /\ u \notin vertices_on_boundary(mesh)
       \/ op = "parallel" /\ ~ParallelBlocked(mesh, u, v)

\* C3: every face returned by get_face_strip is a quad
StripAllQuads ==
    Returned("strip") =>
        \A i \in 1..Len(result) : Len(face_vertices(mesh, result[i])) = 4

\* C4: get_continuous_edges returns the same set of undirected edges for the
\* seed (u, v) and for the seed (v, u)
SeedSymmetry ==
    Returned("continuous") =>
        UEdges(result) =
            UEdges(get_continuous_edges(mesh, canon, rot, <<seed[2], seed[1]>>, directed))

\* a line that extends past both ends of the seed
BothWaysReturned ==
    /\ Returned("continuous")
    /\ Len(result) >= 3
    /\ \E i, j \in 2..Len(result) : seed[1] \in UEdge(result[i]) /\ seed[2] \in UEdge(result[j])

\* C5: every pair returned by get_continuous_edges(directed=True) and by
\* get_parallel_edges is in the mesh's edge set in that orientation
OrientationFidelity ==
    (Returned("parallel") \/ (Returned("continuous") /\ directed)) =>
        \A i \in 1..Len(result) : result[i] \in mesh_edges(mesh, canon)

\* a returned list in which some walked edge had to be turned around
TurnedEdgeReturned ==
    /\ Returned("parallel") \/ (Returned("continuous") /\ directed)
    /\ \E i \in 1..Len(result) : result[i] # edges[i]
    /\ seed \notin mesh_edges(mesh, canon)

\* the seed face of get_face_strip has no edge whose reverse half-edge has no face
NoOpenEdge(m, f) ==
    \A e \in LoopEdges(m) : InLoop(m, f, e[1], e[2]) => <<e[2], e[1]>> \in LoopEdges(m)

NotBoundaryQuad(m, f) ==
    \/ f \notin faces_on_boundary(m)
    \/ Len(face_vertices(m, f)) # 4
    \/ NoOpenEdge(m, f)

\* C6: get_face_strip leaves the mesh alone; it returns the empty list at once
\* for a seed that is no boundary face, no quad or has no open edge, and
\* otherwise a list that starts with the seed face
StripSeedContract ==
    [][op' = "strip" =>
          /\ mesh' = mesh
          /\ IF NotBoundaryQuad(mesh, fseed')
             THEN pc' = "done" /\ result' = <<>>
             ELSE /\ faces' # <<>>
                  /\ faces'[1] = fseed'
                  /\ pc' = "done" => result' = faces']_vars

\* a boundary face that was rejected, being no quad
StripRejectedTriangle ==
    /\ Returned("strip")
    /\ result = <<>>
    /\ fseed \in faces_on_boundary(mesh)

\* C7: get_parallel_edges returns the seed's vertex pair exactly once, right
\* after the reversed first walk and before the second walk
SeedOnceInMiddle ==
    Returned("parallel") =>
        /\ Cardinality({i \in 1..Len(result) : UEdge(result[i]) = UEdge(seed)}) = 1
        /\ UEdge(result[nfwd + 1]) = UEdge(seed)

\* a ring of quads on which both walks went all the way around to the seed
RingParallelReturned ==
    /\ Returned("parallel")
    /\ nfwd >= 2
    /\ Len(result) = 2 * nfwd + 1
    /\ ~ParallelBlocked(mesh, u, v)

\* the middle edge of an interior horizontal line of the 3 x 3 grid, row j
GridLine(j) == << <<4 * j, 4 * j + 1>>, <<4 * j + 1, 4 * j + 2>>, <<4 * j + 2, 4 * j + 3>> >>

GridSeedCall(j) ==
    /\ Returned("continuous")
    /\ mesh = Grid3x3
    /\ directed
    /\ UEdge(seed) = UEdge(GridLine(j)[2])

UList(es) == [k \in 1..Len(es) |-> UEdge(es[k])]

\* C8 as stated: the three edges of the line, listed from left to right
GridLineLeftToRight ==
    \A j \in 1..2 : GridSeedCall(j) => UList(result) = UList(GridLine(j))

\* C8 amended: the three edges of the line, each once, the seed first, then the
\* edge past the seed's first vertex, then the edge past its second vertex
GridLineSeedFirst ==
    \A j \in 1..2 : GridSeedCall(j) =>
        /\ Len(result) = 3
        /\ UEdges(result) = UEdges(GridLine(j))
        /\ UEdge(result[1]) = UEdge(seed)
        /\ seed[1] \in UEdge(result[2]) /\ UEdge(result[2]) # UEdge(seed)
        /\ seed[2] \in UEdge(result[3]) /\ UEdge(result[3]) # UEdge(seed)

GridLineReturned == \E j \in 1..2 : GridSeedCall(j) /\ seed = GridLine(j)[2]

RingStripCall ==
    /\ Returned("strip")
    /\ \E n \in RingSizes : mesh = Ring(n)
    /\ fseed \in FaceKeys(mesh)

\* C9 as stated: on a ring of N quads get_face_strip returns all N faces once
RingStripAllFaces ==
    RingStripCall =>
        /\ Len(result) = Len(mesh)
        /\ Range(result) = FaceKeys(mesh)

\* C9 amended: on a ring of N quads get_face_strip returns the seed face alone,
\* the edge across from its boundary edge being on the other boundary loop
RingStripSeedOnly ==
    RingStripCall =>
        /\ result = <<fseed>>
        /\ halfedge(mesh, v, u) = NoFace
        /\ InLoop(mesh, fseed, u, v)

RingStripReturned == RingStripCall /\ Len(mesh) = MaxRing /\ result # <<>>

\* e and d are the two opposite edges of quad f
OppositeIn(m, f, e, d) ==
    /\ Len(face_vertices(m, f)) = 4
    /\ InLoop(m, f, e[1], e[2]) \/ InLoop(m, f, e[2], e[1])
    /\ InLoop(m, f, d[1], d[2]) \/ InLoop(m, f, d[2], d[1])
    /\ UEdge(e) \cap UEdge(d) = {}

IsQuadFace(m, f) == f # NoFace /\ Len(face_vertices(m, f)) = 4

\* C10: consecutive edges returned by get_parallel_edges are the opposite edges
\* of one quad, and an edge with a missing or non-quad face on one side is an
\* end of the chain
ParallelAcrossQuads ==
    Returned("parallel") =>
        /\ \A i \in 1..(Len(result) - 1) :
              \E f \in FaceKeys(mesh) : OppositeIn(mesh, f, result[i], result[i + 1])
        /\ \A i \in 2..(Len(result) - 1) :
              /\ IsQuadFace(mesh, halfedge(mesh, result[i][1], result[i][2]))
              /\ IsQuadFace(mesh, halfedge(mesh, result[i][2], result[i][1]))

\* a chain of several edges that stopped in front of a face that is no quad
QuadGateReturned ==
    /\ Returned("parallel")
    /\ Len(result) >= 3
    /\ halfedge(mesh, u, v) # NoFace
    /\ Len(face_vertices(mesh, halfedge(mesh, u, v))) # 4
====
